---- MODULE Spec2Model ----
(***************************************************************************)
(* Model of package broadcast: the single-stream broadcaster               *)
(* (src/broadcaster.go) and the multiplexed observer                       *)
(* (src/mux_observer.go).                                                  *)
(*                                                                         *)
(* A run constructs one instance, a broadcaster or a MuxObserver (kind),   *)
(* and then interleaves the callers' operations, the subscribers' reads    *)
(* and the steps of the instance's background goroutine.                   *)
(*                                                                         *)
(* Values are numbered in the order the callers offer them (the n-th       *)
(* Submit/TrySubmit call offers value n): the code never inspects a value, *)
(* and distinct values let a delivery be traced back to its submission.    *)
(* A send on a closed channel and a second close panic and end the         *)
(* program: such calls have no successor state.                            *)
(***************************************************************************)
EXTENDS Naturals, Integers, Sequences, FiniteSets, TLC

\* ---------------------------------------------------------------- bounds
\* Largest input-channel capacity given to the constructor (buflen / qlen).
MaxBufLen == 1
\* Capacity of the MuxObserver's registration channel (reglen).
RegLen == 1
\* Capacity of each subscriber's channel.
ChanCap == 1
\* Number of calls in a run that send on a channel: Register, Unregister,
\* Submit, TrySubmit and a sub-observer's Close.
MaxOps == 4

\* The subscribers' channels, and the zero value of a channel.
Endpoints == {"c1", "c2"}
NilChan == "nil"
\* The sub-observers that Sub() can allocate.
Handles == {"A", "B"}
NoSub == "none"

VARIABLES
    kind,        \* "broadcaster" or "mux": the instance constructed
    buflen,      \* capacity of the input channel
    input,       \* b.input / m.input: the buffered values
    outputs,     \* b.outputs
    regClosed,   \* b.reg / m.reg has been closed
    unregClosed, \* b.unreg has been closed
    reg,         \* m.reg: the buffered registration requests
    subs,        \* m.subs: sub-observer -> set of channels (a partial function)
    handles,     \* the sub-observers Sub() has returned
    pc,          \* the background goroutine's position
    cur,         \* the background goroutine's locals: m, ch, todo (rest of the range), sub
    chans,       \* the contents of each subscriber's channel
    calling,     \* broadcaster, per endpoint: the call for it ("register",
                 \* "unregister") that is blocked in its send, or "none"
    \* ---- history (not program state)
    nextVal,     \* the number of the next value offered
    nOps,        \* the number of calls counted by MaxOps so far
    ret,         \* the latest Submit/TrySubmit call: its value and how it returned
    sent,        \* per endpoint, the values written to it, in order
    expect,      \* per buffered value (same index as input): the endpoints whose
                 \* Register had returned, unrevoked, when the value was accepted
    last,        \* the value dequeued last: the endpoint set it was dequeued
                 \* against (snap) and its expect
    regd,        \* <<sub, ch>>: a Register that returned and was not revoked since
    unregd,      \* <<sub, ch>>: an Unregister in effect, no Register since
    sincePurge,  \* mux: purged sub-observer -> the channels registered, and not
                 \* unregistered, by the requests applied since its last purge
    waited       \* mux: per buffered request (same index as reg): the number of
                 \* observations dequeued since it was accepted

vars == <<kind, buflen, input, outputs, regClosed, unregClosed, reg, subs,
          handles, pc, cur, chans, calling, nextVal, nOps, ret, sent, expect, last, regd, unregd,
          sincePurge, waited>>

bvars == <<outputs, unregClosed, calling>>
mvars == <<reg, subs, handles>>
hvars == <<nextVal, nOps, ret, sent, expect, last, regd, unregd, sincePurge, waited>>

NoCur == [m |-> 0, ch |-> NilChan, todo |-> {}, sub |-> NoSub]
NoLast == [m |-> 0, sub |-> NoSub, snap |-> {}, expect |-> {}]
NoRet == [v |-> 0, how |-> "none"]
EmptyMap == [t \in {} |-> {}]

\* Mutant: an off-by-one capacity test.
CanSend_OffByOne(q, cap) == Len(q) <= cap

\* ------------------------------------------------------- channel semantics
\* A send on a buffered channel proceeds iff the buffer has room.
CanSend(q, cap) == Len(q) < cap

\* A receive takes the oldest buffered value.
RecvHead(q) == Head(q)

RecvRest(q) == Tail(q)

\* Mutant: the registration replaces the map instead of adding to it.
AddOutput_Replace(outs, ch) == {ch}

\* ------------------------------------------------------------- broadcaster
\* b.outputs[ch] = true
AddOutput(outs, ch) == outs \cup {ch}

\* Mutant: the unregistration is received and dropped.
DelOutput_Forget(outs, ch) == outs

\* delete(b.outputs, ch)
DelOutput(outs, ch) == outs \ {ch}

\* Mutant: the range stops after its first channel.
RangeOutputs_First(outs) == IF outs = {} THEN {} ELSE {CHOOSE ch \in outs : TRUE}

\* for ch := range b.outputs
RangeOutputs(outs) == outs

\* The goroutine starts `for ch := range targets { ch <- m }`: the range picks
\* its first channel, in an order the runtime chooses; an empty range is over.
StartRange(m, sub, targets) ==
    IF targets = {}
    THEN /\ pc' = "select"
         /\ cur' = NoCur
    ELSE \E ch \in targets :
            /\ pc' = "broadcast"
            /\ cur' = [m |-> m, ch |-> ch, todo |-> targets \ {ch}, sub |-> sub]

\* Mutant: a send that cannot proceed is given up and the range moves on.
LoopSend_NonBlocking ==
    /\ pc = "broadcast"
    /\ IF CanSend(chans[cur.ch], ChanCap)
       THEN /\ chans' = [chans EXCEPT ![cur.ch] = Append(@, cur.m)]
            /\ sent' = [sent EXCEPT ![cur.ch] = Append(@, cur.m)]
       ELSE UNCHANGED <<chans, sent>>
    /\ StartRange(cur.m, cur.sub, cur.todo)
    /\ UNCHANGED <<kind, buflen, input, bvars, mvars, regClosed,
                   nextVal, nOps, ret, expect, last, regd, unregd, sincePurge, waited>>

\* ch <- m for the channel the range is at: blocks while ch is full. Then the
\* range moves to one of the channels left, or ends.
LoopSend ==
    /\ pc = "broadcast"
    /\ CanSend(chans[cur.ch], ChanCap)
    /\ chans' = [chans EXCEPT ![cur.ch] = Append(@, cur.m)]
    /\ sent' = [sent EXCEPT ![cur.ch] = Append(@, cur.m)]
    /\ StartRange(cur.m, cur.sub, cur.todo)
    /\ UNCHANGED <<kind, buflen, input, bvars, mvars, regClosed,
                   nextVal, nOps, ret, expect, last, regd, unregd, sincePurge, waited>>

\* A subscriber receives from its channel.
Read(e) ==
    /\ chans[e] # <<>>
    /\ chans' = [chans EXCEPT ![e] = RecvRest(@)]
    /\ UNCHANGED <<kind, buflen, input, bvars, mvars, regClosed, pc, cur, hvars>>

\* The values endpoint e's subscriber has received, in order.
ReadBy(e) == SubSeq(sent[e], 1, Len(sent[e]) - Len(chans[e]))

\* History: value v is accepted into the input channel through sub.
Accepted(v, sub, how) ==
    /\ ret' = [v |-> v, how |-> how]
    /\ expect' = Append(expect, {p[2] : p \in {q \in regd : q[1] = sub}})

\* History: the registrations in X are revoked (unregistered, purged, closed);
\* SubAt(i) is the sub-observer the i-th buffered value is tagged with.
Revoked(X, SubAt(_)) ==
    /\ regd' = regd \ X
    /\ expect' = [i \in DOMAIN expect |->
                    expect[i] \ {p[2] : p \in {q \in X : q[1] = SubAt(i)}}]

BSubAt(i) == NoSub

\* Mutant: Register writes b.outputs itself instead of sending on b.reg.
Register_Direct(ch) ==
    /\ kind = "broadcaster"
    /\ calling[ch] = "register"
    /\ calling' = [calling EXCEPT ![ch] = "none"]
    /\ ~regClosed
    /\ outputs' = AddOutput(outputs, ch)
    /\ regd' = regd \cup {<<NoSub, ch>>}
    /\ unregd' = unregd \ {<<NoSub, ch>>}
    /\ UNCHANGED <<kind, buflen, input, unregClosed, mvars, regClosed, pc, cur, chans,
                   nextVal, nOps, ret, sent, expect, last, sincePurge, waited>>

\* ---- Register: b.reg <- newch. b.reg is unbuffered: the caller blocks in
\* the send (CallRegister) until the goroutine receives it in its select
\* (Register), and then returns. (On a closed channel the send panics, and
\* the program ends.)
CallRegister(ch) ==
    /\ nOps < MaxOps
    /\ nOps' = nOps + 1
    /\ kind = "broadcaster"
    /\ ~regClosed
    /\ calling[ch] = "none"
    /\ calling' = [calling EXCEPT ![ch] = "register"]
    /\ UNCHANGED <<kind, buflen, input, outputs, unregClosed, mvars, regClosed, pc, cur,
                   chans, nextVal, ret, sent, expect, last, regd, unregd, sincePurge,
                   waited>>

Register(ch) ==
    /\ kind = "broadcaster"
    /\ calling[ch] = "register"
    /\ calling' = [calling EXCEPT ![ch] = "none"]
    /\ ~regClosed
    /\ pc = "select"
    /\ pc' = "reg"
    /\ cur' = [cur EXCEPT !.ch = ch]
    /\ regd' = regd \cup {<<NoSub, ch>>}
    /\ unregd' = unregd \ {<<NoSub, ch>>}
    /\ UNCHANGED <<kind, buflen, input, outputs, unregClosed, mvars, regClosed, chans,
                   nextVal, nOps, ret, sent, expect, last, sincePurge, waited>>

\* case ch, ok := <-b.reg: if ok { b.outputs[ch] = true }
LoopAddOutput ==
    /\ kind = "broadcaster"
    /\ pc = "reg"
    /\ outputs' = AddOutput(outputs, cur.ch)
    /\ pc' = "select"
    /\ cur' = NoCur
    /\ UNCHANGED <<kind, buflen, input, unregClosed, calling, mvars, regClosed, chans, hvars>>

\* ---- Unregister: b.unreg <- newch, unbuffered like b.reg.
CallUnregister(ch) ==
    /\ nOps < MaxOps
    /\ nOps' = nOps + 1
    /\ kind = "broadcaster"
    /\ ~unregClosed
    /\ calling[ch] = "none"
    /\ calling' = [calling EXCEPT ![ch] = "unregister"]
    /\ UNCHANGED <<kind, buflen, input, outputs, unregClosed, mvars, regClosed, pc, cur,
                   chans, nextVal, ret, sent, expect, last, regd, unregd, sincePurge,
                   waited>>

Unregister(ch) ==
    /\ kind = "broadcaster"
    /\ calling[ch] = "unregister"
    /\ calling' = [calling EXCEPT ![ch] = "none"]
    /\ ~unregClosed
    /\ pc = "select"
    /\ pc' = "unreg"
    /\ cur' = [cur EXCEPT !.ch = ch]
    /\ Revoked({<<NoSub, ch>>}, BSubAt)
    /\ unregd' = unregd \cup {<<NoSub, ch>>}
    /\ UNCHANGED <<kind, buflen, input, outputs, unregClosed, mvars, regClosed, chans,
                   nextVal, nOps, ret, sent, last, sincePurge, waited>>

\* case ch := <-b.unreg on the closed channel: ch is nil, at once.
LoopRecvUnregClosed ==
    /\ kind = "broadcaster"
    /\ unregClosed
    /\ pc = "select"
    /\ pc' = "unreg"
    /\ cur' = [cur EXCEPT !.ch = NilChan]
    /\ UNCHANGED <<kind, buflen, input, bvars, mvars, regClosed, chans, hvars>>

\* delete(b.outputs, ch)
LoopDelOutput ==
    /\ kind = "broadcaster"
    /\ pc = "unreg"
    /\ outputs' = DelOutput(outputs, cur.ch)
    /\ pc' = "select"
    /\ cur' = NoCur
    /\ UNCHANGED <<kind, buflen, input, unregClosed, calling, mvars, regClosed, chans, hvars>>

\* Mutant: the goroutine returns on any wake-up, whether or not b.reg is closed.
LoopReturn_Early ==
    /\ kind = "broadcaster"
    /\ pc = "select"
    /\ pc' = "done"
    /\ UNCHANGED <<kind, buflen, input, bvars, mvars, regClosed, cur, chans, hvars>>

\* case ch, ok := <-b.reg with !ok: return
LoopReturn ==
    /\ kind = "broadcaster"
    /\ regClosed
    /\ pc = "select"
    /\ pc' = "done"
    /\ UNCHANGED <<kind, buflen, input, bvars, mvars, regClosed, cur, chans, hvars>>

\* Mutant: the goroutine broadcasts the oldest value but leaves it buffered.
LoopDequeue_Peek ==
    /\ kind = "broadcaster"
    /\ pc = "select"
    /\ input # <<>>
    /\ last' = [m |-> RecvHead(input), sub |-> NoSub, snap |-> outputs,
                expect |-> Head(expect)]
    /\ StartRange(RecvHead(input), NoSub, RangeOutputs(outputs))
    /\ UNCHANGED <<kind, buflen, input, expect, bvars, mvars, regClosed, chans,
                   nextVal, nOps, ret, sent, regd, unregd, sincePurge, waited>>

\* Mutant: the value is received and dropped, without a fan-out.
LoopDequeue_Discard ==
    /\ kind = "broadcaster"
    /\ pc = "select"
    /\ input # <<>>
    /\ input' = RecvRest(input)
    /\ expect' = Tail(expect)
    /\ last' = [m |-> RecvHead(input), sub |-> NoSub, snap |-> outputs,
                expect |-> Head(expect)]
    /\ UNCHANGED <<kind, buflen, bvars, mvars, regClosed, pc, cur, chans,
                   nextVal, nOps, ret, sent, regd, unregd, sincePurge, waited>>

\* case m := <-b.input: b.broadcast(m)
LoopDequeue ==
    /\ kind = "broadcaster"
    /\ pc = "select"
    /\ input # <<>>
    /\ input' = RecvRest(input)
    /\ expect' = Tail(expect)
    /\ last' = [m |-> RecvHead(input), sub |-> NoSub, snap |-> outputs,
                expect |-> Head(expect)]
    /\ StartRange(RecvHead(input), NoSub, RangeOutputs(outputs))
    /\ UNCHANGED <<kind, buflen, bvars, mvars, regClosed, chans,
                   nextVal, nOps, ret, sent, regd, unregd, sincePurge, waited>>

\* Mutant: Submit puts the value in the queue whether or not it has room.
Submit_NoBlock ==
    /\ kind = "broadcaster"
    /\ nOps < MaxOps
    /\ nOps' = nOps + 1
    /\ input' = Append(input, nextVal)
    /\ nextVal' = nextVal + 1
    /\ Accepted(nextVal, NoSub, "submit")
    /\ UNCHANGED <<kind, buflen, bvars, mvars, regClosed, pc, cur, chans,
                   sent, last, regd, unregd, sincePurge, waited>>

\* ---- Submit: b.input <- m, blocking while the buffer is full.
Submit ==
    /\ kind = "broadcaster"
    /\ nOps < MaxOps
    /\ nOps' = nOps + 1
    /\ CanSend(input, buflen)
    /\ input' = Append(input, nextVal)
    /\ nextVal' = nextVal + 1
    /\ Accepted(nextVal, NoSub, "submit")
    /\ UNCHANGED <<kind, buflen, bvars, mvars, regClosed, pc, cur, chans,
                   sent, last, regd, unregd, sincePurge, waited>>

\* ---- TrySubmit: select { case b.input <- m: return true; default: return false }
TrySubmit ==
    /\ kind = "broadcaster"
    /\ nOps < MaxOps
    /\ nOps' = nOps + 1
    /\ nextVal' = nextVal + 1
    /\ IF CanSend(input, buflen)
       THEN /\ input' = Append(input, nextVal)
            /\ Accepted(nextVal, NoSub, "try_true")
       ELSE /\ input' = input
            /\ ret' = [v |-> nextVal, how |-> "try_false"]
            /\ expect' = expect
    /\ UNCHANGED <<kind, buflen, bvars, mvars, regClosed, pc, cur, chans,
                   sent, last, regd, unregd, sincePurge, waited>>

\* ---- Close: close(b.reg); close(b.unreg); return nil. Two steps: the
\* goroutine may run between them. (A second Close panics on close(b.reg).)
CloseReg ==
    /\ kind = "broadcaster"
    /\ ~regClosed
    /\ regClosed' = TRUE
    /\ Revoked(regd, BSubAt)
    /\ UNCHANGED <<kind, buflen, input, bvars, mvars, pc, cur, chans,
                   nextVal, nOps, ret, sent, last, unregd, sincePurge, waited>>

CloseUnreg ==
    /\ kind = "broadcaster"
    /\ regClosed /\ ~unregClosed
    /\ unregClosed' = TRUE
    /\ UNCHANGED <<kind, buflen, input, outputs, calling, mvars, regClosed, pc, cur, chans,
                   hvars>>

\* ------------------------------------------------------------- MuxObserver
\* const ( register = iota; unregister; purge )
register == 0
unregister == 1
purge == 2

\* taggedRegReq{sub, ch, regType}
RegReq(sub, ch, regType) == [sub |-> sub, ch |-> ch, regType |-> regType]

\* taggedObservation{sub, ob}
Observation(sub, ob) == [sub |-> sub, ob |-> ob]

\* m.subs[sub] read as a set: the nil map of an absent key has no channels.
Entry(s, sub) == IF sub \in DOMAIN s THEN s[sub] ELSE {}

\* delete(m.subs, sub)
MapDelete(s, sub) == [t \in DOMAIN s \ {sub} |-> s[t]]

\* Mutant: the fan-out ignores the observation's tag.
MuxTargets_All(s, to) == UNION {s[t] : t \in DOMAIN s}

\* for ch := range m.subs[to.sub]
MuxTargets(s, to) == Entry(s, to.sub)

doReg(s, tr) ==
    IF tr.sub \in DOMAIN s
    THEN [s EXCEPT ![tr.sub] = @ \cup {tr.ch}]
    ELSE [t \in DOMAIN s \cup {tr.sub} |-> IF t = tr.sub THEN {tr.ch} ELSE s[t]]

\* Mutant: only the removal of a sub-observer's last channel takes effect.
doUnreg_LastOnly(s, tr) ==
    IF tr.sub \in DOMAIN s /\ s[tr.sub] \ {tr.ch} = {}
    THEN MapDelete(s, tr.sub)
    ELSE s

\* Mutant: the emptied set of a sub-observer stays in the map.
doUnreg_KeepEmpty(s, tr) ==
    IF tr.sub \in DOMAIN s
    THEN [s EXCEPT ![tr.sub] = @ \ {tr.ch}]
    ELSE s

doUnreg(s, tr) ==
    IF tr.sub \in DOMAIN s
    THEN LET mm == s[tr.sub] \ {tr.ch}
         IN  IF mm = {} THEN MapDelete(s, tr.sub) ELSE [s EXCEPT ![tr.sub] = mm]
    ELSE s

\* Mutant: purge falls through to the unregistration of tr.ch (nil).
handleReg_PurgeAsUnreg(s, tr) ==
    CASE tr.regType = register -> doReg(s, tr)
      [] tr.regType = unregister -> doUnreg(s, tr)
      [] tr.regType = purge -> doUnreg(s, tr)

handleReg(s, tr) ==
    CASE tr.regType = register -> doReg(s, tr)
      [] tr.regType = unregister -> doUnreg(s, tr)
      [] tr.regType = purge -> MapDelete(s, tr.sub)

\* Mutant: the outer select takes its default case whenever m.reg is open,
\* requests buffered or not.
OuterDefault_Blind(q, closed) == ~closed

\* The outer select takes its default case iff nothing can be received from
\* m.reg at once: the buffer is empty and the channel is open.
OuterDefault(q, closed) == q = <<>> /\ ~closed

\* The inner select can receive an observation iff one is buffered; it chooses
\* among the cases that are ready.
InnerInputReady(in) == in # <<>>

\* Sub: &subObserver[T]{m}, a fresh object.
NewHandle(hs) == CHOOSE h \in Handles \ hs : TRUE

Sub ==
    /\ kind = "mux"
    /\ handles # Handles
    /\ handles' = handles \cup {NewHandle(handles)}
    /\ UNCHANGED <<buflen, kind, input, bvars, reg, subs, regClosed, pc, cur, chans, hvars>>

MSubAt(i) == input[i].sub

\* s.mo.reg <- taggedRegReq[T]{s, ch, register}: returns once buffered.
SubRegister(s, ch) ==
    /\ nOps < MaxOps
    /\ nOps' = nOps + 1
    /\ kind = "mux"
    /\ s \in handles
    /\ ~regClosed
    /\ CanSend(reg, RegLen)
    /\ reg' = Append(reg, RegReq(s, ch, register))
    /\ waited' = Append(waited, 0)
    /\ regd' = regd \cup {<<s, ch>>}
    /\ UNCHANGED <<kind, buflen, input, bvars, subs, handles, regClosed, pc, cur, chans,
                   nextVal, ret, sent, expect, last, unregd, sincePurge>>

\* s.mo.reg <- taggedRegReq[T]{s, ch, unregister}
SubUnregister(s, ch) ==
    /\ nOps < MaxOps
    /\ nOps' = nOps + 1
    /\ kind = "mux"
    /\ s \in handles
    /\ ~regClosed
    /\ CanSend(reg, RegLen)
    /\ reg' = Append(reg, RegReq(s, ch, unregister))
    /\ waited' = Append(waited, 0)
    /\ Revoked({<<s, ch>>}, MSubAt)
    /\ UNCHANGED <<kind, buflen, input, bvars, subs, handles, regClosed, pc, cur, chans,
                   nextVal, ret, sent, last, unregd, sincePurge>>

\* s.mo.reg <- taggedRegReq[T]{s, nil, purge}
SubClose(s) ==
    /\ nOps < MaxOps
    /\ nOps' = nOps + 1
    /\ kind = "mux"
    /\ s \in handles
    /\ ~regClosed
    /\ CanSend(reg, RegLen)
    /\ reg' = Append(reg, RegReq(s, NilChan, purge))
    /\ waited' = Append(waited, 0)
    /\ Revoked({s} \X Endpoints, MSubAt)
    /\ UNCHANGED <<kind, buflen, input, bvars, subs, handles, regClosed, pc, cur, chans,
                   nextVal, ret, sent, last, unregd, sincePurge>>

\* s.mo.input <- taggedObservation[T]{s, ob}, blocking while the buffer is full.
SubSubmit(s) ==
    /\ kind = "mux"
    /\ s \in handles
    /\ nOps < MaxOps
    /\ nOps' = nOps + 1
    /\ CanSend(input, buflen)
    /\ input' = Append(input, Observation(s, nextVal))
    /\ nextVal' = nextVal + 1
    /\ Accepted(nextVal, s, "submit")
    /\ UNCHANGED <<kind, buflen, bvars, mvars, regClosed, pc, cur, chans,
                   sent, last, regd, unregd, sincePurge, waited>>

\* select { case s.mo.input <- ...: return true; default: return false }
SubTrySubmit(s) ==
    /\ kind = "mux"
    /\ s \in handles
    /\ nOps < MaxOps
    /\ nOps' = nOps + 1
    /\ nextVal' = nextVal + 1
    /\ IF CanSend(input, buflen)
       THEN /\ input' = Append(input, Observation(s, nextVal))
            /\ Accepted(nextVal, s, "try_true")
       ELSE /\ input' = input
            /\ ret' = [v |-> nextVal, how |-> "try_false"]
            /\ expect' = expect
    /\ UNCHANGED <<kind, buflen, bvars, mvars, regClosed, pc, cur, chans,
                   sent, last, regd, unregd, sincePurge, waited>>

\* MuxObserver.Close: close(m.reg); return nil
MuxClose ==
    /\ kind = "mux"
    /\ ~regClosed
    /\ regClosed' = TRUE
    /\ Revoked(regd, MSubAt)
    /\ UNCHANGED <<kind, buflen, input, bvars, mvars, pc, cur, chans,
                   nextVal, nOps, ret, sent, last, unregd, sincePurge, waited>>

\* History of a request the goroutine applies.
Applied(tr) ==
    /\ waited' = Tail(waited)
    /\ unregd' = CASE tr.regType = register -> unregd \ {<<tr.sub, tr.ch>>}
                   [] tr.regType = unregister -> unregd \cup {<<tr.sub, tr.ch>>}
                   [] tr.regType = purge -> unregd
    /\ sincePurge' =
         CASE tr.regType = purge ->
                [t \in DOMAIN sincePurge \cup {tr.sub} |->
                    IF t = tr.sub THEN {} ELSE sincePurge[t]]
           [] tr.regType = register /\ tr.sub \in DOMAIN sincePurge ->
                [sincePurge EXCEPT ![tr.sub] = @ \cup {tr.ch}]
           [] tr.regType = unregister /\ tr.sub \in DOMAIN sincePurge ->
                [sincePurge EXCEPT ![tr.sub] = @ \ {tr.ch}]
           [] OTHER -> sincePurge

\* case tr, ok := <-m.reg: if ok { m.handleReg(tr) }, in either select.
RecvReg ==
    /\ reg # <<>>
    /\ reg' = RecvRest(reg)
    /\ subs' = handleReg(subs, RecvHead(reg))
    /\ Applied(RecvHead(reg))
    /\ pc' = "select"
    /\ UNCHANGED <<kind, buflen, input, bvars, handles, regClosed, cur, chans,
                   nextVal, nOps, ret, sent, expect, last, regd>>

\* The outer select, m.reg ready with a request.
MuxOuterReg ==
    /\ kind = "mux"
    /\ pc = "select"
    /\ RecvReg

\* Mutant: the outer select returns as soon as m.reg is closed, requests still
\* buffered or not.
MuxOuterReturn_Undrained ==
    /\ kind = "mux"
    /\ pc = "select"
    /\ regClosed
    /\ pc' = "done"
    /\ UNCHANGED <<kind, buflen, input, bvars, mvars, regClosed, cur, chans, hvars>>

\* The outer select, m.reg closed and drained: return.
MuxOuterReturn ==
    /\ kind = "mux"
    /\ pc = "select"
    /\ reg = <<>> /\ regClosed
    /\ pc' = "done"
    /\ UNCHANGED <<kind, buflen, input, bvars, mvars, regClosed, cur, chans, hvars>>

\* The outer select, nothing to receive from m.reg: default, on to the inner select.
MuxOuterDefault ==
    /\ kind = "mux"
    /\ pc = "select"
    /\ OuterDefault(reg, regClosed)
    /\ pc' = "inner"
    /\ UNCHANGED <<kind, buflen, input, bvars, mvars, regClosed, cur, chans, hvars>>

\* The inner select: case tr, ok := <-m.reg with a request.
MuxInnerReg ==
    /\ kind = "mux"
    /\ pc = "inner"
    /\ RecvReg

\* The inner select: m.reg closed and drained: return.
MuxInnerReturn ==
    /\ kind = "mux"
    /\ pc = "inner"
    /\ reg = <<>> /\ regClosed
    /\ pc' = "done"
    /\ UNCHANGED <<kind, buflen, input, bvars, mvars, regClosed, cur, chans, hvars>>

\* The inner select: case to := <-m.input: m.broadcast(to)
MuxInnerInput ==
    /\ kind = "mux"
    /\ pc = "inner"
    /\ InnerInputReady(input)
    /\ input' = RecvRest(input)
    /\ expect' = Tail(expect)
    /\ waited' = [i \in DOMAIN waited |-> waited[i] + 1]
    /\ last' = [m |-> RecvHead(input).ob, sub |-> RecvHead(input).sub,
                snap |-> Entry(subs, RecvHead(input).sub), expect |-> Head(expect)]
    /\ StartRange(RecvHead(input).ob, RecvHead(input).sub, MuxTargets(subs, RecvHead(input)))
    /\ UNCHANGED <<kind, buflen, bvars, mvars, regClosed, chans,
                   nextVal, nOps, ret, sent, regd, unregd, sincePurge>>

\* ------------------------------------------------------------------ system
\* NewBroadcaster(buflen): empty channels and map, the goroutine at its select.
InitBroadcaster ==
    /\ kind = "broadcaster"
    /\ buflen \in 1..MaxBufLen
    /\ input = <<>>
    /\ outputs = {}
    /\ regClosed = FALSE
    /\ unregClosed = FALSE
    /\ reg = <<>>
    /\ subs = EmptyMap
    /\ handles = {}
    /\ pc = "select"
    /\ cur = NoCur
    /\ chans = [e \in Endpoints |-> <<>>]
    /\ calling = [e \in Endpoints |-> "none"]
    /\ nextVal = 1
    /\ nOps = 0
    /\ ret = NoRet
    /\ sent = [e \in Endpoints |-> <<>>]
    /\ expect = <<>>
    /\ last = NoLast
    /\ regd = {}
    /\ unregd = {}
    /\ sincePurge = EmptyMap
    /\ waited = <<>>

\* NewMuxObserver(qlen, reglen): the same, with m.reg buffered.
InitMux ==
    /\ kind = "mux"
    /\ buflen \in 1..MaxBufLen
    /\ input = <<>>
    /\ outputs = {}
    /\ regClosed = FALSE
    /\ unregClosed = FALSE
    /\ reg = <<>>
    /\ subs = EmptyMap
    /\ handles = {}
    /\ pc = "select"
    /\ cur = NoCur
    /\ chans = [e \in Endpoints |-> <<>>]
    /\ calling = [e \in Endpoints |-> "none"]
    /\ nextVal = 1
    /\ nOps = 0
    /\ ret = NoRet
    /\ sent = [e \in Endpoints |-> <<>>]
    /\ expect = <<>>
    /\ last = NoLast
    /\ regd = {}
    /\ unregd = {}
    /\ sincePurge = EmptyMap
    /\ waited = <<>>

Init == InitBroadcaster \/ InitMux

Next ==
    \/ \E ch \in Endpoints : CallRegister(ch)
    \/ \E ch \in Endpoints : Register(ch)
    \/ \E ch \in Endpoints : CallUnregister(ch)
    \/ \E ch \in Endpoints : Unregister(ch)
    \/ Submit
    \/ TrySubmit
    \/ CloseReg
    \/ CloseUnreg
    \/ LoopAddOutput
    \/ LoopDelOutput
    \/ LoopRecvUnregClosed
    \/ LoopReturn
    \/ LoopDequeue
    \/ LoopSend
    \/ \E e \in Endpoints : Read(e)
    \/ Sub
    \/ \E s \in Handles, ch \in Endpoints : SubRegister(s, ch)
    \/ \E s \in Handles, ch \in Endpoints : SubUnregister(s, ch)
    \/ \E s \in Handles : SubClose(s)
    \/ \E s \in Handles : SubSubmit(s)
    \/ \E s \in Handles : SubTrySubmit(s)
    \/ MuxClose
    \/ MuxOuterReg
    \/ MuxOuterReturn
    \/ MuxOuterDefault
    \/ MuxInnerReg
    \/ MuxInnerReturn
    \/ MuxInnerInput

Spec == Init /\ [][Next]_vars

\* ---- The broadcaster alone, under the scheduling the runtime provides: a
\* goroutine that can take a step takes one (weak fairness of each step of
\* run), a select that is entered again and again with b.reg closed chooses
\* that case at some point (the runtime chooses uniformly among the ready
\* cases: strong fairness of the return), and every subscriber keeps
\* receiving from its channel.
NextB ==
    \/ \E ch \in Endpoints : CallRegister(ch)
    \/ \E ch \in Endpoints : Register(ch)
    \/ \E ch \in Endpoints : CallUnregister(ch)
    \/ \E ch \in Endpoints : Unregister(ch)
    \/ Submit
    \/ TrySubmit
    \/ CloseReg
    \/ CloseUnreg
    \/ LoopAddOutput
    \/ LoopDelOutput
    \/ LoopRecvUnregClosed
    \/ LoopReturn
    \/ LoopDequeue
    \/ LoopSend
    \/ \E e \in Endpoints : Read(e)

FairB ==
    /\ WF_vars(LoopAddOutput)
    /\ WF_vars(LoopDelOutput)
    /\ WF_vars(LoopDequeue)
    /\ WF_vars(LoopSend)
    /\ SF_vars(LoopReturn)
    /\ \A e \in Endpoints : WF_vars(Read(e))

SpecBFair == InitBroadcaster /\ [][NextB]_vars /\ FairB

\* ---- The broadcaster alone, with subscribers that call Register and
\* Unregister for their own channel: a subscriber blocked in such a call is not
\* receiving meanwhile, every other subscriber keeps receiving. The goroutine
\* is scheduled as above, and a select entered again and again with a sender
\* waiting on b.reg or b.unreg receives from it at some point.
ReadWhenFree(e) == calling[e] = "none" /\ Read(e)

FairBCallers ==
    /\ WF_vars(LoopAddOutput)
    /\ WF_vars(LoopDelOutput)
    /\ WF_vars(LoopDequeue)
    /\ WF_vars(LoopSend)
    /\ SF_vars(LoopReturn)
    /\ \A ch \in Endpoints : SF_vars(Register(ch)) /\ SF_vars(Unregister(ch))
    /\ \A e \in Endpoints : WF_vars(ReadWhenFree(e))

SpecBCallers == InitBroadcaster /\ [][NextB]_vars /\ FairBCallers

\* ---- The MuxObserver alone, under the same scheduling: each step of run
\* that stays possible is taken, and every subscriber keeps receiving. The
\* callers make at most MaxFairOps calls between them.
MaxFairOps == 3

FairBudget == nOps < MaxFairOps

NextM ==
    \/ Sub
    \/ FairBudget /\ \E s \in Handles, ch \in Endpoints : SubRegister(s, ch)
    \/ FairBudget /\ \E s \in Handles, ch \in Endpoints : SubUnregister(s, ch)
    \/ FairBudget /\ \E s \in Handles : SubClose(s)
    \/ FairBudget /\ \E s \in Handles : SubSubmit(s)
    \/ FairBudget /\ \E s \in Handles : SubTrySubmit(s)
    \/ MuxClose
    \/ MuxOuterReg
    \/ MuxOuterReturn
    \/ MuxOuterDefault
    \/ MuxInnerReg
    \/ MuxInnerReturn
    \/ MuxInnerInput
    \/ LoopSend
    \/ \E e \in Endpoints : Read(e)

FairM ==
    /\ WF_vars(MuxOuterReg)
    /\ WF_vars(MuxOuterReturn)
    /\ WF_vars(MuxOuterDefault)
    /\ WF_vars(MuxInnerReg)
    /\ WF_vars(MuxInnerReturn)
    /\ WF_vars(MuxInnerInput)
    /\ WF_vars(LoopSend)
    /\ \A e \in Endpoints : WF_vars(Read(e))

SpecMFair == InitMux /\ [][NextM]_vars /\ FairM

\* ---- Either object, with subscribers that keep receiving, the goroutine
\* scheduled as above, and a select that serves a sender waiting on b.reg or
\* b.unreg at some point. The callers make at most MaxProgressOps calls
\* between them.
FairCalls == \A ch \in Endpoints : SF_vars(Register(ch)) /\ SF_vars(Unregister(ch))

MaxProgressOps == 2

ProgressBudget == nOps < MaxProgressOps

NextFair ==
    \/ ProgressBudget /\ \E ch \in Endpoints : CallRegister(ch)
    \/ \E ch \in Endpoints : Register(ch)
    \/ ProgressBudget /\ \E ch \in Endpoints : CallUnregister(ch)
    \/ \E ch \in Endpoints : Unregister(ch)
    \/ ProgressBudget /\ Submit
    \/ ProgressBudget /\ TrySubmit
    \/ CloseReg
    \/ CloseUnreg
    \/ LoopAddOutput
    \/ LoopDelOutput
    \/ LoopRecvUnregClosed
    \/ LoopReturn
    \/ LoopDequeue
    \/ Sub
    \/ ProgressBudget /\ \E s \in Handles, ch \in Endpoints : SubRegister(s, ch)
    \/ ProgressBudget /\ \E s \in Handles, ch \in Endpoints : SubUnregister(s, ch)
    \/ ProgressBudget /\ \E s \in Handles : SubClose(s)
    \/ ProgressBudget /\ \E s \in Handles : SubSubmit(s)
    \/ ProgressBudget /\ \E s \in Handles : SubTrySubmit(s)
    \/ MuxClose
    \/ MuxOuterReg
    \/ MuxOuterReturn
    \/ MuxOuterDefault
    \/ MuxInnerReg
    \/ MuxInnerReturn
    \/ MuxInnerInput
    \/ LoopSend
    \/ \E e \in Endpoints : Read(e)

\* A step of either goroutine, the return apart.
LoopStep ==
    \/ LoopAddOutput
    \/ LoopDelOutput
    \/ LoopDequeue
    \/ LoopSend
    \/ MuxOuterReg
    \/ MuxOuterDefault
    \/ MuxInnerReg
    \/ MuxInnerInput

FairProgress ==
    /\ WF_vars(LoopStep)
    /\ FairCalls
    /\ \A e \in Endpoints : WF_vars(Read(e))

SpecFair == Init /\ [][NextFair]_vars /\ FairProgress

\* ------------------------------------------------------------------ claims
Range(f) == {f[i] : i \in DOMAIN f}

StrictlyIncreasing(f) == \A i, j \in DOMAIN f : i < j => f[i] < f[j]

\* The value the i-th buffered item of the input channel carries.
ValueAt(q, i) == IF kind = "mux" THEN q[i].ob ELSE q[i]

\* This step is a TrySubmit call returning.
TryStep == nextVal' = nextVal + 1 /\ ret'.how \in {"try_true", "try_false"}

\* This step writes a value to endpoint e.
Delivery(e) == sent'[e] # sent[e]

\* This step is the goroutine applying the request at the head of m.reg.
ApplyStep == Len(reg') < Len(reg)

C2_RegisterVisible ==
    (kind = "broadcaster" /\ last.m # 0) => last.expect \subseteq last.snap

C2_Witness ==
    /\ kind = "broadcaster"
    /\ last.m # 0
    /\ last.expect = Endpoints
    /\ \A e \in Endpoints : last.m \in Range(sent[e])

\* C3: Broadcaster unregister effect. From the moment Unregister(X) has
\* returned until Register(X) is accepted again, no value is written to X.
C3_UnregisterEffect ==
    [][kind = "broadcaster" =>
         \A e \in Endpoints : <<NoSub, e>> \in unregd => ~Delivery(e)]_vars

C3_Witness ==
    /\ kind = "broadcaster"
    /\ \E e \in Endpoints :
         /\ <<NoSub, e>> \in unregd
         /\ sent[e] # <<>>
         /\ last.m # 0 /\ last.m \notin Range(sent[e])
         /\ e \notin last.snap

\* C4: TrySubmit boundary. A TrySubmit call made while the input channel holds
\* fewer values than its capacity returns true and appends its value; one made
\* while the channel is full returns false and leaves the channel as it was.
C4_TrySubmitBoundary ==
    [][TryStep =>
         IF Len(input) < buflen
         THEN /\ ret' = [v |-> nextVal, how |-> "try_true"]
              /\ Len(input') = Len(input) + 1
              /\ SubSeq(input', 1, Len(input)) = input
              /\ ValueAt(input', Len(input')) = nextVal
         ELSE /\ ret' = [v |-> nextVal, how |-> "try_false"]
              /\ input' = input]_vars

C4_Witness ==
    /\ ret = [v |-> buflen + 1, how |-> "try_false"]
    /\ Len(input) = buflen
    /\ \A i \in 1..buflen : ValueAt(input, i) = i

\* The capacity-1 scenario: C registered, then TrySubmit(5) returned true (5 is
\* value 1), and no other call since.
Scenario5(C) ==
    /\ kind = "broadcaster" /\ buflen = 1
    /\ nOps = 2
    /\ regd = {<<NoSub, C>>}
    /\ ret = [v |-> 1, how |-> "try_true"]
    /\ \/ input = <<1>> /\ expect = <<{C}>>
       \/ last.m = 1 /\ last.expect = {C}

\* C5 as stated: in the scenario every TrySubmit(6) returns false as long as
\* C has not read 5.
C5_Original ==
    [][\A C \in Endpoints :
         (Scenario5(C) /\ 1 \notin Range(ReadBy(C)) /\ TryStep)
            => ret'.how = "try_false"]_vars

\* C5 as amended: in the scenario TrySubmit(6) returns false exactly as long
\* as the goroutine has not dequeued 5, whether or not C has read 5; and when
\* it returns true, C has been written nothing but 5 before 6.
C5_Amended ==
    [][\A C \in Endpoints :
         (Scenario5(C) /\ TryStep) =>
            /\ ret'.how = "try_false" <=> last.m # 1
            /\ ret'.how = "try_true" =>
                 /\ input' = <<nextVal>>
                 /\ sent[C] \in {<<>>, <<1>>}
                 /\ \A e \in Endpoints \ {C} : sent[e] = <<>>]_vars

C5_Witness ==
    /\ kind = "broadcaster" /\ buflen = 1
    /\ nOps = 3
    /\ ret = [v |-> 2, how |-> "try_true"]
    /\ \E C \in Endpoints :
         /\ regd = {<<NoSub, C>>}
         /\ last.m = 1 /\ last.expect = {C}
         /\ ReadBy(C) = <<>>
         /\ input = <<2>>

\* C6: Multiplex isolation. A value is written only to endpoints registered
\* under the sub-observer it was submitted through, and a request applied for
\* one sub-observer leaves every other sub-observer's entry as it was.
C6_Isolation ==
    [][kind = "mux" =>
         /\ \A e \in Endpoints : Delivery(e) => e \in Entry(subs, last.sub)
         /\ ApplyStep =>
              \A t \in Handles \ {Head(reg).sub} :
                 /\ (t \in DOMAIN subs') = (t \in DOMAIN subs)
                 /\ Entry(subs', t) = Entry(subs, t)]_vars

C6_Witness ==
    /\ kind = "mux"
    /\ DOMAIN subs = Handles
    /\ \E e \in Endpoints :
         /\ subs["A"] = {e}
         /\ subs["B"] = Endpoints \ {e}
         /\ last.sub = "A"
         /\ sent[e] = <<last.m>>
         /\ \A f \in Endpoints \ {e} : sent[f] = <<>>
         /\ pc = "select"

\* C7: Purge semantics. Once a purge has been applied for a sub-observer, its
\* entry holds exactly the channels registered (and not unregistered) by the
\* requests applied since, and no entry while there are none; its
\* observations are written to those channels only.
C7_Purge ==
    /\ [](kind = "mux" =>
            \A t \in DOMAIN sincePurge :
               /\ Entry(subs, t) = sincePurge[t]
               /\ sincePurge[t] = {} => t \notin DOMAIN subs)
    /\ [][kind = "mux" =>
            \A e \in Endpoints :
               (Delivery(e) /\ last.sub \in DOMAIN sincePurge)
                  => e \in sincePurge[last.sub]]_vars

C7_Witness ==
    /\ kind = "mux"
    /\ \E t \in DOMAIN sincePurge : \E e \in Endpoints :
         /\ sincePurge[t] = {e}
         /\ t \in DOMAIN subs /\ subs[t] = {e}
         /\ last.sub = t
         /\ sent[e] = <<last.m>>
         /\ \A f \in Endpoints \ {e} : sent[f] = <<>>

\* C8 as stated: Registration priority. While a registration request and an
\* observation are both buffered, the goroutine does not dequeue the
\* observation.
C8_RegistrationPriority ==
    [][(kind = "mux" /\ reg # <<>> /\ input # <<>>) => ~(Len(input') < Len(input))]_vars

\* C9 as stated: MuxObserver registration visibility. An observation accepted
\* after Register(X) returned on its sub-observer, with no Unregister(X), purge
\* or Close in between, is dequeued against an entry that contains X.
C9_MuxRegisterVisible ==
    (kind = "mux" /\ last.m # 0) => last.expect \subseteq last.snap

\* C10: MuxObserver unregister effect. From the moment the goroutine has
\* applied Unregister(X) for a sub-observer until it applies a Register(X) for
\* it, no value submitted through that sub-observer is written to X.
C10_MuxUnregisterEffect ==
    [][kind = "mux" =>
         \A e \in Endpoints : Delivery(e) => <<last.sub, e>> \notin unregd]_vars

C10_Witness ==
    /\ kind = "mux"
    /\ \E t \in Handles, e \in Endpoints :
         /\ <<t, e>> \in unregd
         /\ sent[e] # <<>>
         /\ last.sub = t
         /\ last.m \notin Range(sent[e])
         /\ pc = "select"

\* C11: Broadcaster shutdown. The goroutine returns only once Close has closed
\* b.reg; after it has returned no value is written to any endpoint; and once
\* b.reg is closed it does return, given that the subscribers keep receiving
\* and the select is fair to its ready cases.
C11_Shutdown ==
    /\ [](pc = "done" => regClosed)
    /\ [][pc = "done" => (sent' = sent /\ Len(input') >= Len(input) /\ pc' = "done")]_vars
    /\ (regClosed ~> pc = "done")

C11_Witness ==
    /\ kind = "broadcaster"
    /\ pc = "done"
    /\ regClosed
    /\ input # <<>>
    /\ \E e \in Endpoints : sent[e] # <<>> /\ e \in outputs

\* C12: MuxObserver shutdown. The goroutine returns exactly on receiving from
\* the closed and drained m.reg: never before MuxObserver.Close, with every
\* request that was buffered already applied; after the return nothing is
\* dequeued from m.input and nothing is written to an endpoint; and once
\* m.reg is closed it does return, given that the subscribers keep receiving.
C12_MuxShutdown ==
    /\ [](pc = "done" => (regClosed /\ reg = <<>>))
    /\ [][pc = "done" => (sent' = sent /\ Len(input') >= Len(input) /\ subs' = subs /\ pc' = "done")]_vars
    /\ (regClosed ~> pc = "done")

C12_Witness ==
    /\ kind = "mux"
    /\ pc = "done"
    /\ input # <<>>
    /\ \E e \in Endpoints : sent[e] # <<>>
    /\ \E s \in DOMAIN subs : subs[s] # {}

\* C13: TrySubmit returns true iff the item was broadcast. Every value for
\* which TrySubmit returned true is eventually dequeued by the goroutine and
\* its fan-out to the endpoints registered at that time completed, and a value
\* for which TrySubmit returned false is never written to any endpoint.
C13_TrySubmitIffBroadcast ==
    \A v \in 1..MaxOps :
        /\ [](ret = [v |-> v, how |-> "try_true"]
                => <>(last.m = v /\ pc # "broadcast"))
        /\ [](ret = [v |-> v, how |-> "try_false"]
                => [](\A e \in Endpoints : v \notin Range(sent[e])))

\* C14: MuxObserver map invariant. Between two messages no sub-observer in
\* m.subs is bound to an empty set of channels. An entry appears only when
\* the goroutine applies a register request for a sub-observer that has none
\* (Sub() creates none); applying the unregistration of a sub-observer's only
\* channel, or a purge, removes its entry; and applying an unregistration for
\* a sub-observer without entry, or for a channel that is not in its entry,
\* changes nothing.
C14_MapInvariant ==
    /\ [](kind = "mux" => \A t \in DOMAIN subs : subs[t] # {})
    /\ [][kind = "mux" =>
            /\ \A t \in DOMAIN subs' \ DOMAIN subs :
                   /\ ApplyStep
                   /\ Head(reg).regType = register
                   /\ Head(reg).sub = t
            /\ handles' # handles => subs' = subs
            /\ (ApplyStep /\ Head(reg).regType = purge)
                   => Head(reg).sub \notin DOMAIN subs'
            /\ (ApplyStep /\ Head(reg).regType = unregister)
                   => LET tr == Head(reg)
                      IN  /\ Entry(subs, tr.sub) = {tr.ch} => tr.sub \notin DOMAIN subs'
                          /\ tr.ch \notin Entry(subs, tr.sub) => subs' = subs]_vars

C14_Witness ==
    /\ kind = "mux"
    /\ \E s \in Handles, t \in Handles, ch \in Endpoints :
          /\ <<s, ch>> \in unregd
          /\ s \notin DOMAIN subs
          /\ sent[ch] # <<>>
          /\ t \in DOMAIN subs

\* C15: Registration starvation bound. Between the acceptance of a request
\* into m.reg and its application the goroutine dequeues at most one
\* observation, however many are buffered or arrive; and an iteration that
\* starts with a request in m.reg applies a request: the goroutine neither
\* goes on to the inner select, nor dequeues an observation, nor returns.
C15_StarvationBound ==
    /\ [](kind = "mux" => \A i \in DOMAIN waited : waited[i] <= 1)
    /\ [][(kind = "mux" /\ pc = "select" /\ reg # <<>>)
             => (pc' = "select" /\ Len(input') >= Len(input))]_vars
    /\ [][(kind = "mux" /\ ApplyStep) => waited[1] <= 1]_vars

C15_Witness ==
    /\ kind = "mux"
    /\ pc = "select"
    /\ waited # <<>>
    /\ waited[1] = 1
    /\ input # <<>>

\* The goroutine is in a fan-out, at a channel that cannot take the value.
BlockedInFanOut == pc = "broadcast" /\ ~CanSend(chans[cur.ch], ChanCap)

\* C16: Blocking fan-out couples consumers. While the Broadcaster's goroutine
\* is blocked writing v to an endpoint that cannot accept it, it processes no
\* Register, no Unregister and no further input value, and no endpoint is
\* written; the fan-out moves on only by that endpoint accepting v.
C16_BlockingFanOut ==
    [][kind = "broadcaster" =>
         /\ BlockedInFanOut =>
               /\ pc' = pc /\ cur' = cur
               /\ outputs' = outputs
               /\ Len(input') >= Len(input)
               /\ sent' = sent
         /\ (pc = "broadcast" /\ <<pc, cur>>' # <<pc, cur>>) =>
               /\ ~BlockedInFanOut
               /\ sent' = [sent EXCEPT ![cur.ch] = Append(@, cur.m)]
               /\ outputs' = outputs /\ input' = input]_vars

C16_Witness ==
    /\ kind = "broadcaster"
    /\ BlockedInFanOut
    /\ cur.todo # {}
    /\ cur.m = 2

\* This step is a call of Register, Unregister, Submit, TrySubmit, Sub or Close
\* (of the Broadcaster, the MuxObserver or a sub-observer).
CallerStep ==
    \/ nOps' # nOps
    \/ calling' # calling
    \/ handles' # handles
    \/ regClosed' # regClosed
    \/ unregClosed' # unregClosed

\* Queue q2 is q, or q with one message appended.
Extends(q, q2) ==
    \/ q2 = q
    \/ Len(q2) = Len(q) + 1 /\ SubSeq(q2, 1, Len(q)) = q

\* C17: Single-owner mutation. b.outputs and m.subs change only in a step of
\* the background goroutine (its handling of a received registration or
\* unregistration); a call of Register, Unregister, Submit, TrySubmit, Sub or
\* Close only puts a message on a channel or closes a channel and leaves
\* b.outputs and m.subs as they are.
C17_SingleOwner ==
    [][/\ outputs' # outputs => (pc \in {"reg", "unreg"} /\ pc' = "select")
       /\ subs' # subs => (pc \in {"select", "inner"} /\ ApplyStep)
       /\ CallerStep =>
            /\ outputs' = outputs /\ subs' = subs
            /\ chans' = chans
            /\ Extends(input, input') /\ Extends(reg, reg')]_vars

C17_Witness ==
    /\ kind = "broadcaster"
    /\ pc = "select"
    /\ outputs = {"c2"}
    /\ <<NoSub, "c1">> \in unregd
    /\ sent["c1"] # <<>>

\* C18: No deadlock between unregistration and delivery. On a Broadcaster
\* that is not closed, every call of Register or Unregister that has begun
\* returns at some point, also when the caller is the subscriber of the
\* channel concerned, is not receiving from it during the call, and values
\* are pending for it.
C18_NoDeadlock ==
    \A ch \in Endpoints :
        (calling[ch] # "none") ~> (calling[ch] = "none" \/ regClosed)

\* Value v is buffered in the input channel.
InInput(v) == \E i \in DOMAIN input : ValueAt(input, i) = v

\* The fan-out of v is over: v was dequeued last and has been written to every
\* endpoint of the set it was dequeued against.
FannedOut(v) ==
    /\ last.m = v
    /\ pc # "broadcast"
    /\ \A e \in last.snap : v \in Range(sent[e])

SubmitStep == nextVal' = nextVal + 1 /\ ret'.how = "submit"

\* The number of accepted values whose fan-out is not over: those buffered,
\* and the one the goroutine is fanning out.
InFlight == Len(input) + (IF pc = "broadcast" THEN 1 ELSE 0)

\* C20: In-flight bound. With input capacity N the input channel holds at
\* most N values, all of them accepted after the value dequeued last, and at
\* most N+1 accepted values are not yet fanned out; a Submit returns only from
\* a state in which the channel has room, and a full channel gets room only by
\* the goroutine dequeuing its oldest value.
C20_InFlightBound ==
    /\ [](/\ Len(input) <= buflen
          /\ InFlight <= buflen + 1
          /\ \A i \in DOMAIN input : ValueAt(input, i) > last.m
          /\ \A i \in DOMAIN input : ValueAt(input, i) < nextVal)
    /\ [][/\ SubmitStep =>
              /\ Len(input) < buflen
              /\ Len(input') = Len(input) + 1
              /\ ValueAt(input', Len(input')) = nextVal
          /\ Len(input') < Len(input) =>
              /\ pc \in {"select", "inner"}
              /\ input' = RecvRest(input)
              /\ last'.m = ValueAt(input, 1)]_vars

C20_Witness ==
    /\ Len(input) = buflen
    /\ pc = "broadcast"
    /\ ~CanSend(chans[cur.ch], ChanCap)
    /\ ret = [v |-> ValueAt(input, Len(input)), how |-> "submit"]

====
